---- MODULE Spec2Model ----
(***************************************************************************)
(* The message dispatch engine of the Node.js language worker              *)
(* (src/src/setupEventStream.ts), the application start sequence           *)
(* (src/src/startApp.ts) and the function registry                         *)
(* (src/src/coreApi/registerFunction.ts).                                  *)
(*                                                                         *)
(* JavaScript runs one task at a time: the code between two suspension     *)
(* points (an await that really waits for I/O or for user code) is one     *)
(* atomic action.  A message that arrives while a handler is suspended is  *)
(* handled at once (setupEventStream.ts:26-28 does not await               *)
(* handleMessage), so several requests can be in flight.                   *)
(***************************************************************************)
EXTENDS Integers, Sequences, FiniteSets, TLC

\* ------------------------------------------------------------------ bounds
MaxMsgs == 2        \* inbound envelopes received in one run
MaxHooks == 2       \* appStart callbacks registered in one run
MaxFiles == 1       \* files an entry point pattern can match
MaxCalls == 3       \* registry API calls in one run

\* ------------------------------------------------------------- vocabulary
HandlerKinds ==
    {"workerInitRequest", "functionLoadRequest", "functionEnvironmentReloadRequest",
     "invocationRequest", "functionsMetadataRequest"}

UnimplementedKinds ==
    {"closeSharedMemoryResourcesRequest", "fileChangeEventRequest",
     "functionLoadRequestCollection", "invocationCancel", "startStream",
     "workerHeartbeat"}

\* a content kind the switch has no case for (a response kind sent to the worker)
UnknownKinds == {"invocationResponse"}

AllKinds ==
    HandlerKinds \cup UnimplementedKinds \cup UnknownKinds
        \cup {"workerTerminate", "workerStatusRequest"}

StartAppKinds == {"workerInitRequest", "functionEnvironmentReloadRequest"}

\* messages of the errors user code (hooks, functions, script files) can throw;
\* `throw new Error()` has the empty message
UserMessages == {<<>>, <<"boom">>}

NoHandlerMessage == <<"Worker had no handler for message">>
NullPropMessage == <<"Expected value to be neither null nor undefined">>
ZeroFilesMessage == <<"Found zero files matching the supplied pattern">>
LoadPrefix == <<"Worker was unable to load entry point: ">>
MalformedMessage == <<"Worker malformed message">>

\* an error message is the sequence of its parts; <<>> is the empty string
Error(m, sys, internal) ==
    [message |-> m, isAzureFunctionsSystemError |-> sys,
     isAzureFunctionsInternalException |-> internal]

AzFuncSystemError(m) == Error(m, TRUE, FALSE)

UserError(m) == Error(m, FALSE, FALSE)

UserErrors == {UserError(m) : m \in UserMessages}

VARIABLES
    tasks,                  \* one record per received envelope: the handleMessage call
    stream,                 \* what the underlying eventStream.write has been given
    console,                \* systemError output (not sent on the stream)
    terminated,             \* the process has exited
    hostVersion,            \* channel._hostVersion, <<>> while undefined
    packageJsonMain,        \* channel.packageJson.main is set
    hooks,                  \* number of registered appStart callbacks
    appLevelOnlyHookData,   \* channel.appLevelOnlyHookData, as its set of keys
    appHookData,            \* channel.appHookData, as its set of keys
    hasIndexedFunctions,    \* channel.hasIndexedFunctions
    functions,              \* channel.functions: functionId -> metadata object
    heap,                   \* metadata object -> its functionId field (0: unset)
    nextId,                 \* the next value uuid() returns
    calls                   \* registry API calls made so far, with their outcome

dispatchVars ==
    <<tasks, stream, console, terminated, hostVersion, packageJsonMain, hooks,
      appLevelOnlyHookData, appHookData>>

registryVars == <<functions, heap, nextId, calls>>

vars == <<dispatchVars, hasIndexedFunctions, registryVars>>

\* ------------------------------------------------- envelopes and responses
\* setupEventStream.ts:48-50
OutMsgWrongId(inMsg) == [requestId |-> 1, content |-> <<>>]

OutMsg(inMsg) == [requestId |-> inMsg.requestId, content |-> <<>>]

\* setupEventStream.ts:56-93: the handler the switch constructs
SelectHandler(eventName) ==
    IF eventName \in HandlerKinds THEN eventName ELSE "none"

\* EventHandler.responseName of each handler class
ResponseName(handler) ==
    CASE handler = "workerInitRequest" -> "workerInitResponse"
      [] handler = "functionLoadRequest" -> "functionLoadResponse"
      [] handler = "functionEnvironmentReloadRequest" -> "functionEnvironmentReloadResponse"
      [] handler = "invocationRequest" -> "invocationResponse"
      [] handler = "functionsMetadataRequest" -> "functionMetadataResponse"

\* EventHandler.getDefaultResponse: a minimal valid payload
GetDefaultResponse(handler) == [from |-> "getDefaultResponse", wellFormed |-> TRUE]

\* what handleEvent resolves to: the handler's payload, well formed or not
HandledResponse(wf) == [from |-> "handleEvent", wellFormed |-> wf]

\* ensureErrorType: an Error is returned as it is
EnsureErrorType(err) == err

\* setupEventStream.ts:97-98
SetSuccessAsFailure(out, handler, response) ==
    [out EXCEPT !.content =
        <<[name |-> ResponseName(handler), payload |-> response,
           result |-> <<[status |-> "Failure", exception |-> <<>>]>>]>>]

SetSuccess(out, handler, response) ==
    [out EXCEPT !.content =
        <<[name |-> ResponseName(handler), payload |-> response,
           result |-> <<[status |-> "Success", exception |-> <<>>]>>]>>]

\* setupEventStream.ts:109-119
SetFailureNoMessage(out, handler, hasRequest, error) ==
    IF handler # "none" /\ hasRequest
    THEN [out EXCEPT !.content =
            <<[name |-> ResponseName(handler),
               payload |-> GetDefaultResponse(handler),
               result |-> <<[status |-> "Failure",
                             exception |-> <<[message |-> <<>>]>>]>>]>>]
    ELSE out

SetFailure(out, handler, hasRequest, error) ==
    IF handler # "none" /\ hasRequest
    THEN [out EXCEPT !.content =
            <<[name |-> ResponseName(handler),
               payload |-> GetDefaultResponse(handler),
               result |-> <<[status |-> "Failure",
                             exception |-> <<[message |-> error.message]>>]>>]>>]
    ELSE out

\* setupEventStream.ts:77
SetWorkerStatusWithResult(out) ==
    [out EXCEPT !.content =
        <<[name |-> "workerStatusResponse",
           payload |-> [from |-> "empty", wellFormed |-> TRUE],
           result |-> <<[status |-> "Success", exception |-> <<>>]>>]>>]

SetWorkerStatus(out) ==
    [out EXCEPT !.content =
        <<[name |-> "workerStatusResponse",
           payload |-> [from |-> "empty", wellFormed |-> TRUE],
           result |-> <<>>]>>]

\* rpc.StreamingMessage.verify: every populated field is well formed
Verify(msg) == \A i \in 1..Len(msg.content) : msg.content[i].payload.wellFormed

Reply(t, msg) == [type |-> "reply", task |-> t, msg |-> msg]

\* worker.log: an rpcLog envelope written to the stream
RpcLog(t, level, text, n) ==
    [type |-> "rpcLog", task |-> t, level |-> level, logCategory |-> "System",
     message |-> text, n |-> n]

\* setupEventStream.ts:101-107: the log of the catch block
CatchLogs(t, error) ==
    IF error.isAzureFunctionsSystemError
    THEN <<RpcLog(t, "Error", error.message, 0)>>
    ELSE <<>>

\* the stream's own write, without the wrapper of lines 36-44
CheckWriteUnvalidated(t, msg) ==
    [threw |-> FALSE, written |-> <<Reply(t, msg)>>, errors |-> <<>>]

\* setupEventStream.ts:37-44: the validating write around the stream's write
CheckWrite(t, msg) ==
    IF Verify(msg)
    THEN [threw |-> FALSE, written |-> <<Reply(t, msg)>>, errors |-> <<>>]
    ELSE [threw |-> TRUE, written |-> <<>>,
          errors |-> <<[task |-> t, message |-> MalformedMessage]>>]

\* ------------------------------------------------------ handleMessage tails
\* setupEventStream.ts:96-98 and 122-124: handleEvent resolved with a payload
AfterResolve(t, task, wf) ==
    LET handler == SelectHandler(task.kind)
        out == SetSuccess(OutMsg(task), handler, HandledResponse(wf))
        w == CheckWrite(t, out)
    IN  [task |-> [task EXCEPT !.pc = IF w.threw THEN "raised" ELSE "done",
                               !.handleEvent = "resolved"],
         written |-> w.written, errors |-> w.errors]

\* AfterThrow without the test of line 122
AfterThrowAlwaysWrites(t, task, err, called) ==
    LET handler == SelectHandler(task.kind)
        error == EnsureErrorType(err)
        out == SetFailure(OutMsg(task), handler, called, error)
        w == CheckWrite(t, out)
    IN  [task |-> [task EXCEPT !.pc = IF w.threw THEN "raised" ELSE "done",
                               !.handleEvent = IF called THEN "rejected" ELSE @,
                               !.caught = <<error>>],
         written |-> CatchLogs(t, error) \o w.written, errors |-> w.errors]

\* a catch block that swallows the error: no log, no failure reply
AfterThrowSwallowed(t, task, err, called) ==
    [task |-> [task EXCEPT !.pc = "done",
                           !.handleEvent = IF called THEN "rejected" ELSE @,
                           !.caught = <<EnsureErrorType(err)>>],
     written |-> <<>>, errors |-> <<>>]

\* setupEventStream.ts:99-124: something inside the try block threw `err`;
\* `called` tells whether handleEvent had been called (the request was extracted)
AfterThrow(t, task, err, called) ==
    LET handler == SelectHandler(task.kind)
        error == EnsureErrorType(err)
        out == SetFailure(OutMsg(task), handler, called, error)
        w == IF handler # "none"
             THEN CheckWrite(t, out)
             ELSE [threw |-> FALSE, written |-> <<>>, errors |-> <<>>]
    IN  [task |-> [task EXCEPT !.pc = IF w.threw THEN "raised" ELSE "done",
                               !.handleEvent = IF called THEN "rejected" ELSE @,
                               !.caught = <<error>>],
         written |-> CatchLogs(t, error) \o w.written, errors |-> w.errors]

\* the handleMessage call of a freshly received envelope
NewTask(inMsg) ==
    [kind |-> inMsg.content, requestId |-> inMsg.requestId, pc |-> "start",
     handleEvent |-> "notCalled", caught |-> <<>>, nHooks |-> -1, idx |-> 0,
     seen |-> <<>>, filesLeft |-> 0, context |-> FALSE,
     hostVersion |-> inMsg.hostVersion, reads |-> <<>>, assigned |-> <<>>]

\* the effect of a step of task t: its record, what it wrote and logged
Commit(t, r, pre) ==
    /\ tasks' = IF t > Len(tasks) THEN Append(tasks, r.task)
                 ELSE [tasks EXCEPT ![t] = r.task]
    /\ stream' = stream \o pre \o r.written
    /\ console' = console \o r.errors

\* ------------------------------------------------------------- hook engine
\* startApp.ts:27-29 and 33-35: the context's getters read the channel's maps
\* when a callback uses them
ContextHookData(hd) == hd

\* a getter that never fails: before the version is set it returns undefined
ReadHostVersionUnchecked(hv) ==
    [ok |-> TRUE, value |-> IF hv = <<>> THEN "undefined" ELSE hv[1]]

\* coreApi.hostVersion as user code reads it: it throws until the version is
\* set and returns it afterwards
ReadHostVersion(hv) ==
    IF hv = <<>>
    THEN [ok |-> FALSE, value |-> "Trying to access hostVersion before it is set."]
    ELSE [ok |-> TRUE, value |-> hv[1]]

\* ReadOnlyError(propertyName).message
ReadOnlyMessage(name) == <<"Cannot assign to read only property", name>>

\* the object a callback tries to put in place of a hook-data map
ForeignObject == {0}

\* a setter that assigns: the channel's map is replaced
SetHookDataAssigns(hd, value) == [threw |-> FALSE, message |-> <<>>, map |-> value]

\* startApp.ts:30-32: the setter of context.hookData
SetHookData(hd, value) ==
    [threw |-> TRUE, message |-> ReadOnlyMessage("hookData"), map |-> hd]

\* startApp.ts:36-38: the setter of context.appHookData
SetAppHookData(ahd, value) ==
    [threw |-> TRUE, message |-> ReadOnlyMessage("appHookData"), map |-> ahd]

\* one appStart callback, invoked with the shared context: callback i reads
\* coreApi.hostVersion and context.hookData, tries to assign to
\* context.hookData and to context.appHookData (catching what that throws),
\* and writes its own key inside hookData and inside appHookData
InvokeCallback(task, i, hd, ahd) ==
    LET a == SetHookData(hd, ForeignObject)
        b == SetAppHookData(ahd, ForeignObject)
    IN  [task |-> [task EXCEPT !.pc = "hook", !.idx = i,
                               !.seen = Append(@, ContextHookData(hd)),
                               !.reads = Append(@, ReadHostVersion(hostVersion)),
                               !.assigned =
                                    <<[hookData |-> [threw |-> a.threw, message |-> a.message],
                                       appHookData |-> [threw |-> b.threw, message |-> b.message]]>>],
         hd |-> a.map \cup {i}, ahd |-> b.map \cup {i}]

\* the state a step leaves behind: the task, what it wrote, the two hook maps
Outcome(r, pre, hd, ahd) ==
    [task |-> r.task, written |-> pre \o r.written, errors |-> r.errors,
     hd |-> hd, ahd |-> ahd]

\* startApp.ts:26-40: startApp builds the appStart context object before it
\* calls executeHooks, whatever the number of registered callbacks
AppStartContext(task, n) == [task EXCEPT !.nHooks = n, !.context = TRUE]

\* startApp without line 41: the stage is never executed
ExecuteHooksSkipped(t, task, pre, wf) ==
    Outcome(AfterResolve(t, AppStartContext(task, hooks), wf), pre,
            appLevelOnlyHookData, appHookData)

\* startApp.ts:26-41 with WorkerChannel.executeHooks('appStart', context):
\* no callbacks: nothing; otherwise log, then call them in registration order
ExecuteHooks(t, task, pre, wf) ==
    IF hooks = 0
    THEN Outcome(AfterResolve(t, AppStartContext(task, 0), wf), pre,
                 appLevelOnlyHookData, appHookData)
    ELSE LET c == InvokeCallback(AppStartContext(task, hooks), 1,
                                 appLevelOnlyHookData, appHookData)
         IN  [task |-> c.task,
              written |-> pre \o <<RpcLog(t, "Debug", <<"Executing appStart hooks">>, hooks)>>,
              errors |-> <<>>, hd |-> c.hd, ahd |-> c.ahd]

CommitOutcome(t, o) ==
    /\ tasks' = [tasks EXCEPT ![t] = o.task]
    /\ stream' = stream \o o.written
    /\ console' = console \o o.errors
    /\ appLevelOnlyHookData' = o.hd
    /\ appHookData' = o.ahd

\* ----------------------------------------------------------------- actions
\* The envelopes the host can send next.  Request ids and host versions are
\* opaque to the worker, so they are named in order of first use: a new
\* envelope carries an id already used or the next unused one, and the first
\* init carries the first version.  `present` tells whether the field named
\* by `content` is non-null; only nonNullProp (lines 72 and 95) reads it.
UsedIds == {tasks[i].requestId : i \in 1..Len(tasks)}

RequestIds == 1..(Cardinality(UsedIds) + 1)

HostVersions == IF hostVersion = <<>> THEN {"2.7.0"} ELSE {"2.7.0", "4.0.0"}

InMsgs ==
    [content : AllKinds \ (HandlerKinds \cup {"workerTerminate"}),
     requestId : RequestIds, present : {TRUE}, hostVersion : {"n/a"}]
    \cup [content : (HandlerKinds \ {"workerInitRequest"}) \cup {"workerTerminate"},
          requestId : RequestIds, present : BOOLEAN, hostVersion : {"n/a"}]
    \cup [content : {"workerInitRequest"}, requestId : RequestIds,
          present : {TRUE}, hostVersion : HostVersions]
    \cup [content : {"workerInitRequest"}, requestId : RequestIds,
          present : {FALSE}, hostVersion : {"n/a"}]

\* a data listener that awaits handleMessage: an envelope is handled only when
\* every earlier call has completed
OnDataAwaits(ts) == \A t \in 1..Len(ts) : ts[t].pc \in {"done", "raised"}

\* setupEventStream.ts:26-28: the data listener starts handleMessage and does
\* not wait for it (void), so an envelope is handled whatever the earlier
\* calls `ts` are doing
OnData(ts) == TRUE

\* setupEventStream.ts:47-125 up to the first suspension of the handler
HandleMessage(inMsg) ==
    LET t == Len(tasks) + 1
        task == NewTask(inMsg)
        eventName == inMsg.content
    IN
    /\ ~terminated
    /\ OnData(tasks)
    /\ Len(tasks) < MaxMsgs
    /\ UNCHANGED <<packageJsonMain, hooks, appHookData, hasIndexedFunctions, registryVars>>
    /\ CASE eventName \in HandlerKinds /\ ~inMsg.present ->
              \* line 95: nonNullProp throws, the handler is set, the request is not
              /\ Commit(t, AfterThrow(t, task, AzFuncSystemError(NullPropMessage), FALSE), <<>>)
              /\ UNCHANGED <<terminated, hostVersion, appLevelOnlyHookData>>
         [] eventName = "workerInitRequest" /\ inMsg.present ->
              \* WorkerInitHandler.handleEvent up to startApp's first await
              /\ Commit(t, [task |-> [task EXCEPT !.pc = "pkg", !.handleEvent = "running"],
                            written |-> <<>>, errors |-> <<>>],
                        <<RpcLog(t, "Debug", <<"Received WorkerInitRequest">>, 0)>>)
              /\ hostVersion' = IF hostVersion = <<>> THEN <<inMsg.hostVersion>> ELSE hostVersion
              /\ UNCHANGED <<terminated, appLevelOnlyHookData>>
         [] eventName = "functionEnvironmentReloadRequest" /\ inMsg.present ->
              \* FunctionEnvironmentReloadHandler.handleEvent up to startApp's first await
              /\ Commit(t, [task |-> [task EXCEPT !.pc = "pkg", !.handleEvent = "running"],
                            written |-> <<>>, errors |-> <<>>],
                        <<RpcLog(t, "Information", <<"Reloading environment variables">>, 0),
                          RpcLog(t, "Information", <<"Changing current working directory">>, 0)>>)
              /\ appLevelOnlyHookData' = {}
              /\ UNCHANGED <<terminated, hostVersion>>
         [] eventName \in HandlerKinds \ StartAppKinds /\ inMsg.present ->
              \* the other handlers suspend in their own work
              /\ Commit(t, [task |-> [task EXCEPT !.pc = "work", !.handleEvent = "running"],
                            written |-> <<>>, errors |-> <<>>], <<>>)
              /\ UNCHANGED <<terminated, hostVersion, appLevelOnlyHookData>>
         [] eventName = "workerTerminate" ->
              \* lines 69-73
              IF inMsg.present
              THEN /\ Commit(t, [task |-> [task EXCEPT !.pc = "done"],
                                 written |-> <<>>, errors |-> <<>>], <<>>)
                   /\ terminated' = TRUE
                   /\ UNCHANGED <<hostVersion, appLevelOnlyHookData>>
              ELSE /\ Commit(t, AfterThrow(t, task, AzFuncSystemError(NullPropMessage), FALSE), <<>>)
                   /\ UNCHANGED <<terminated, hostVersion, appLevelOnlyHookData>>
         [] eventName = "workerStatusRequest" ->
              \* lines 74-79
              /\ LET w == CheckWrite(t, SetWorkerStatus(OutMsg(task)))
                 IN  Commit(t, [task |-> [task EXCEPT !.pc = "done"],
                                written |-> w.written, errors |-> w.errors], <<>>)
              /\ UNCHANGED <<terminated, hostVersion, appLevelOnlyHookData>>
         [] eventName \in UnimplementedKinds ->
              \* lines 83-90
              /\ Commit(t, [task |-> [task EXCEPT !.pc = "done"],
                            written |-> <<>>, errors |-> <<>>], <<>>)
              /\ UNCHANGED <<terminated, hostVersion, appLevelOnlyHookData>>
         [] OTHER ->
              \* lines 91-92
              /\ Commit(t, AfterThrow(t, task, AzFuncSystemError(NoHandlerMessage), FALSE), <<>>)
              /\ UNCHANGED <<terminated, hostVersion, appLevelOnlyHookData>>

\* startApp.ts:24-25 and 45-48: updatePackageJson has finished; `main` tells
\* whether the directory's package.json names an entry point (the warning
\* updatePackageJson logs for a missing package.json is not modelled)
UpdatePackageJsonDone(t, main, wf) ==
    LET task == tasks[t] IN
    /\ ~terminated
    /\ task.pc = "pkg"
    /\ packageJsonMain' = main
    /\ IF main
       THEN /\ wf
            /\ tasks' = [tasks EXCEPT ![t].pc = "glob"]
            /\ UNCHANGED <<stream, console, appLevelOnlyHookData, appHookData>>
       ELSE CommitOutcome(t, ExecuteHooks(t, task, <<>>, wf))
    /\ UNCHANGED <<terminated, hostVersion, hooks, hasIndexedFunctions, registryVars>>

\* startApp.ts:66-70: the catch block of loadEntryPointFile
LoadError(err) ==
    [err EXCEPT !.isAzureFunctionsInternalException = TRUE,
                !.message = LoadPrefix \o @]

\* startApp.ts:48-59: globby has found n files
GlobbyDone(t, n) ==
    LET task == tasks[t] IN
    /\ ~terminated
    /\ task.pc = "glob"
    /\ IF n = 0
       THEN Commit(t, AfterThrow(t, task, LoadError(UserError(ZeroFilesMessage)), TRUE), <<>>)
       ELSE Commit(t, [task |-> [task EXCEPT !.pc = "load", !.filesLeft = n],
                       written |-> <<>>, errors |-> <<>>],
                   <<RpcLog(t, "Debug", <<"Loading entry point file">>, 0)>>)
    /\ UNCHANGED <<terminated, hostVersion, packageJsonMain, hooks, appLevelOnlyHookData,
                   appHookData, hasIndexedFunctions, registryVars>>

\* startApp.ts:59-65 and 26-41: loadScriptFile has loaded one file
LoadScriptFileDone(t, wf) ==
    LET task == tasks[t]
        loaded == <<RpcLog(t, "Debug", <<"Loaded entry point file">>, 0)>>
    IN
    /\ ~terminated
    /\ task.pc = "load"
    /\ IF task.filesLeft > 1
       THEN /\ wf
            /\ tasks' = [tasks EXCEPT ![t].filesLeft = @ - 1]
            /\ stream' = stream \o loaded
                            \o <<RpcLog(t, "Debug", <<"Loading entry point file">>, 0)>>
            /\ UNCHANGED <<console, appLevelOnlyHookData, appHookData>>
       ELSE CommitOutcome(t, ExecuteHooks(t, [task EXCEPT !.filesLeft = 0], loaded, wf))
    /\ UNCHANGED <<terminated, hostVersion, packageJsonMain, hooks, hasIndexedFunctions,
                   registryVars>>

\* a loadEntryPointFile that swallows the failure of loadScriptFile: startApp
\* goes on to the appStart stage
LoadScriptFileFailedIgnored(t, err) ==
    LET task == tasks[t] IN
    /\ ~terminated
    /\ task.pc = "load"
    /\ CommitOutcome(t, ExecuteHooks(t, [task EXCEPT !.filesLeft = 0], <<>>, TRUE))
    /\ UNCHANGED <<terminated, hostVersion, packageJsonMain, hooks, hasIndexedFunctions,
                   registryVars>>

\* startApp.ts:59 and 66-70: loadScriptFile threw
LoadScriptFileFailed(t, err) ==
    LET task == tasks[t] IN
    /\ ~terminated
    /\ task.pc = "load"
    /\ Commit(t, AfterThrow(t, task, LoadError(err), TRUE), <<>>)
    /\ UNCHANGED <<terminated, hostVersion, packageJsonMain, hooks, appLevelOnlyHookData,
                   appHookData, hasIndexedFunctions, registryVars>>

\* executeHooks: the callback the run waits for has returned
HookCallbackDone(t, wf) ==
    LET task == tasks[t] IN
    /\ ~terminated
    /\ task.pc = "hook"
    /\ IF task.idx < task.nHooks
       THEN /\ wf
            /\ LET c == InvokeCallback(task, task.idx + 1, appLevelOnlyHookData, appHookData)
               IN  CommitOutcome(t, [task |-> c.task, written |-> <<>>, errors |-> <<>>,
                                     hd |-> c.hd, ahd |-> c.ahd])
       ELSE CommitOutcome(t,
                Outcome(AfterResolve(t, task, wf),
                        <<RpcLog(t, "Debug", <<"Executed appStart hooks">>, 0)>>,
                        appLevelOnlyHookData, appHookData))
    /\ UNCHANGED <<terminated, hostVersion, packageJsonMain, hooks, hasIndexedFunctions,
                   registryVars>>

\* executeHooks: the callback the run waits for has thrown
HookCallbackFailed(t, err) ==
    LET task == tasks[t] IN
    /\ ~terminated
    /\ task.pc = "hook"
    /\ Commit(t, AfterThrow(t, task, err, TRUE), <<>>)
    /\ UNCHANGED <<terminated, hostVersion, packageJsonMain, hooks, appLevelOnlyHookData,
                   appHookData, hasIndexedFunctions, registryVars>>

\* handleEvent of the load, invocation and metadata handlers has resolved;
\* the metadata handler closes the registration window
HandleEventDone(t, wf) ==
    LET task == tasks[t] IN
    /\ ~terminated
    /\ task.pc = "work"
    /\ Commit(t, AfterResolve(t, task, wf), <<>>)
    /\ hasIndexedFunctions' = (hasIndexedFunctions \/ task.kind = "functionsMetadataRequest")
    /\ UNCHANGED <<terminated, hostVersion, packageJsonMain, hooks, appLevelOnlyHookData,
                   appHookData, registryVars>>

\* handleEvent of the load, invocation and metadata handlers has thrown
HandleEventFailed(t, err) ==
    LET task == tasks[t] IN
    /\ ~terminated
    /\ task.pc = "work"
    /\ Commit(t, AfterThrow(t, task, err, TRUE), <<>>)
    /\ UNCHANGED <<terminated, hostVersion, packageJsonMain, hooks, appLevelOnlyHookData,
                   appHookData, hasIndexedFunctions, registryVars>>

\* registerHook('appStart', callback), called by user code at any time
RegisterHook ==
    /\ ~terminated
    /\ hooks < MaxHooks
    /\ hooks' = hooks + 1
    /\ UNCHANGED <<tasks, stream, console, terminated, hostVersion, packageJsonMain,
                   appLevelOnlyHookData, appHookData, hasIndexedFunctions, registryVars>>

\* --------------------------------------------------------- function registry
\* The metadata objects user code passes to registerFunction, with their
\* bindings (name, direction as the rpc.BindingInfo.Direction enum)
MetadataObjects == {"m1", "m2"}

Bindings(m) ==
    IF m = "m1" THEN {[name |-> "req", direction |-> 0]}
    ELSE {[name |-> "out", direction |-> 1], [name |-> "doc", direction |-> 2]}

\* registerFunction.ts:42-56
ConvertToRawBinding(binding) ==
    [name |-> binding.name,
     direction |-> CASE binding.direction = 0 -> "in"
                     [] binding.direction = 1 -> "out"
                     [] binding.direction = 2 -> "inout"
                     [] OTHER -> "unchanged"]

InternalException(m) == Error(m, FALSE, TRUE)

\* channel.functions[id] = entry / delete channel.functions[id]
Put(fs, id, m) == {e \in fs : e.id # id} \cup {[id |-> id, metadata |-> m]}

Delete(fs, id) == {e \in fs : e.id # id}

\* the disposal tokens handed out so far
Tokens == {calls[i].id : i \in {j \in 1..Len(calls) :
                calls[j].op = "register" /\ calls[j].outcome = "ok"}}

\* RegisterFunction without the test of line 16
RegisterFunctionUnguarded(m) ==
    /\ Len(calls) < MaxCalls
    /\ heap' = [heap EXCEPT ![m] =
                    [functionId |-> nextId,
                     rawBindings |-> {ConvertToRawBinding(b) : b \in Bindings(m)},
                     scriptFile |-> "n/a"]]
    /\ functions' = Put(functions, nextId, m)
    /\ nextId' = nextId + 1
    /\ calls' = Append(calls, [op |-> "register", id |-> nextId, outcome |-> "ok"])
    /\ UNCHANGED <<dispatchVars, hasIndexedFunctions>>

\* registerFunction.ts:11-40: user code registers the metadata object m
RegisterFunction(m) ==
    /\ Len(calls) < MaxCalls
    /\ IF hasIndexedFunctions
       THEN /\ calls' = Append(calls, [op |-> "register", id |-> 0,
                                        outcome |-> "InternalException"])
            /\ UNCHANGED <<functions, heap, nextId>>
       ELSE /\ heap' = [heap EXCEPT ![m] =
                            [functionId |-> nextId,
                             rawBindings |-> {ConvertToRawBinding(b) : b \in Bindings(m)},
                             scriptFile |-> "n/a"]]
            /\ functions' = Put(functions, nextId, m)
            /\ nextId' = nextId + 1
            /\ calls' = Append(calls, [op |-> "register", id |-> nextId, outcome |-> "ok"])
    /\ UNCHANGED <<dispatchVars, hasIndexedFunctions>>

\* registerFunction.ts:33-39: user code disposes the token of function id
Dispose(id) ==
    /\ Len(calls) < MaxCalls
    /\ id \in Tokens
    /\ IF hasIndexedFunctions
       THEN /\ calls' = Append(calls, [op |-> "dispose", id |-> id,
                                        outcome |-> "InternalException"])
            /\ UNCHANGED functions
       ELSE /\ functions' = Delete(functions, id)
            /\ calls' = Append(calls, [op |-> "dispose", id |-> id, outcome |-> "ok"])
    /\ UNCHANGED <<heap, nextId, dispatchVars, hasIndexedFunctions>>

HandlerErrors == UserErrors \cup {AzFuncSystemError(<<"system">>)}

Init ==
    /\ tasks = <<>>
    /\ stream = <<>>
    /\ console = <<>>
    /\ terminated = FALSE
    /\ hostVersion = <<>>
    /\ packageJsonMain = FALSE
    /\ hooks = 0
    /\ appLevelOnlyHookData = {}
    /\ appHookData = {}
    /\ hasIndexedFunctions = FALSE
    /\ functions = {}
    /\ heap = [m \in MetadataObjects |->
                [functionId |-> 0, rawBindings |-> {}, scriptFile |-> "unset"]]
    /\ nextId = 1
    /\ calls = <<>>

Next ==
    \/ \E inMsg \in InMsgs : HandleMessage(inMsg)
    \/ \E t \in 1..Len(tasks), main \in BOOLEAN, wf \in BOOLEAN :
            UpdatePackageJsonDone(t, main, wf)
    \/ \E t \in 1..Len(tasks), n \in 0..MaxFiles : GlobbyDone(t, n)
    \/ \E t \in 1..Len(tasks), wf \in BOOLEAN : LoadScriptFileDone(t, wf)
    \/ \E t \in 1..Len(tasks), err \in UserErrors : LoadScriptFileFailed(t, err)
    \/ \E t \in 1..Len(tasks), wf \in BOOLEAN : HookCallbackDone(t, wf)
    \/ \E t \in 1..Len(tasks), err \in HandlerErrors : HookCallbackFailed(t, err)
    \/ \E t \in 1..Len(tasks), wf \in BOOLEAN : HandleEventDone(t, wf)
    \/ \E t \in 1..Len(tasks), err \in HandlerErrors : HandleEventFailed(t, err)
    \/ RegisterHook

Spec == Init /\ [][Next]_vars

\* The registry with the handler that closes the registration window
MetadataMsgs ==
    [content : {"functionsMetadataRequest"}, requestId : RequestIds,
     present : {TRUE}, hostVersion : {"n/a"}]

NextRegistry ==
    \/ \E m \in MetadataObjects : RegisterFunction(m)
    \/ \E id \in 1..MaxCalls : Dispose(id)
    \/ \E inMsg \in MetadataMsgs : HandleMessage(inMsg)
    \/ \E t \in 1..Len(tasks), wf \in BOOLEAN : HandleEventDone(t, wf)
    \/ \E t \in 1..Len(tasks), err \in HandlerErrors : HandleEventFailed(t, err)

SpecRegistry == Init /\ [][NextRegistry]_vars

\* ------------------------------------------------------------------ claims
ReplyIdx(t) == {i \in 1..Len(stream) : stream[i].type = "reply" /\ stream[i].task = t}

LogIdx(t) == {i \in 1..Len(stream) : stream[i].type = "rpcLog" /\ stream[i].task = t}

Finished(t) == tasks[t].pc \in {"done", "raised"}

Suspended(t) == ~Finished(t)

StatusOf(i) == stream[i].msg.content[1].result[1].status

HasStatus(i, st) ==
    /\ Len(stream[i].msg.content) = 1
    /\ Len(stream[i].msg.content[1].result) = 1
    /\ StatusOf(i) = st

\* C1: every reply envelope written to the stream carries the requestId of the
\* inbound message whose handleMessage call wrote it, whatever the kind, the
\* outcome and the interleaving of the requests in flight.
C1_RequestIdEchoed ==
    \A i \in 1..Len(stream) :
        stream[i].type = "reply" =>
            stream[i].msg.requestId = tasks[stream[i].task].requestId

\* two requests with different ids, answered in the reverse order of their
\* arrival, one with a failure and one with a success
C1_Witness ==
    \E i, j \in 1..Len(stream) :
        /\ i < j
        /\ stream[i].type = "reply" /\ stream[j].type = "reply"
        /\ stream[i].task = 2 /\ stream[j].task = 1
        /\ tasks[1].requestId # tasks[2].requestId
        /\ HasStatus(i, "Failure") /\ HasStatus(j, "Success")

\* the reply of a handler whose handleEvent threw: the kind's response field,
\* the default response, a Failure status and an exception with message m
FailureShaped(i, kind) ==
    /\ Len(stream[i].msg.content) = 1
    /\ stream[i].msg.content[1].name = ResponseName(kind)
    /\ stream[i].msg.content[1].payload = GetDefaultResponse(kind)
    /\ Len(stream[i].msg.content[1].result) = 1
    /\ StatusOf(i) = "Failure"
    /\ Len(stream[i].msg.content[1].result[1].exception) = 1

ExceptionMessage(i) == stream[i].msg.content[1].result[1].exception[1].message

SuccessShaped(i, kind) ==
    /\ Len(stream[i].msg.content) = 1
    /\ stream[i].msg.content[1].name = ResponseName(kind)
    /\ stream[i].msg.content[1].payload.from = "handleEvent"
    /\ Len(stream[i].msg.content[1].result) = 1
    /\ StatusOf(i) = "Success"

\* C2 as stated: for the five kinds with a handler, a handleEvent that fails is
\* answered under the kind's response field by the default response with
\* status Failure and a non-empty exception.message; one that succeeds is
\* answered under the same field with status Success.
C2_AsStated ==
    \A t \in 1..Len(tasks) :
        /\ tasks[t].handleEvent = "rejected" =>
                /\ ReplyIdx(t) # {}
                /\ \A i \in ReplyIdx(t) :
                        FailureShaped(i, tasks[t].kind) /\ ExceptionMessage(i) # <<>>
        /\ tasks[t].handleEvent = "resolved" =>
                \A i \in ReplyIdx(t) : SuccessShaped(i, tasks[t].kind)

\* C2 amended: as stated, but exception.message is the message of the error
\* handleEvent failed with (non-empty whenever that message is non-empty).
C2_FailureAndSuccessShape ==
    \A t \in 1..Len(tasks) :
        /\ tasks[t].kind \in HandlerKinds
            \/ tasks[t].handleEvent = "notCalled"
        /\ tasks[t].handleEvent = "rejected" =>
                /\ ReplyIdx(t) # {}
                /\ \A i \in ReplyIdx(t) :
                        /\ FailureShaped(i, tasks[t].kind)
                        /\ ExceptionMessage(i) = tasks[t].caught[1].message
        /\ tasks[t].handleEvent = "resolved" =>
                \A i \in ReplyIdx(t) : SuccessShaped(i, tasks[t].kind)

\* one handler failed with a non-empty message and another succeeded, both
\* answered
C2_Witness ==
    \E t, u \in 1..Len(tasks) :
        /\ tasks[t].handleEvent = "rejected" /\ tasks[u].handleEvent = "resolved"
        /\ \E i \in ReplyIdx(t) : ExceptionMessage(i) = <<"boom">>
        /\ ReplyIdx(u) # {}

\* C3 as stated: every envelope written for a request kind that has a handler
\* holds that kind's response field with a result status, also when the
\* content field of the inbound envelope is null.
C3_NoPartialReply ==
    \A t \in 1..Len(tasks) :
        tasks[t].kind \in HandlerKinds =>
            \A i \in ReplyIdx(t) :
                /\ Len(stream[i].msg.content) = 1
                /\ stream[i].msg.content[1].name = ResponseName(tasks[t].kind)
                /\ Len(stream[i].msg.content[1].result) = 1

\* C4 as stated: a finished request of a kind with a handler has exactly one
\* reply, a reply is written only once handleEvent has resolved or rejected
\* and is written when it has, and workerTerminate and the unimplemented
\* kinds have no reply.
C4_ReplyCount ==
    \A t \in 1..Len(tasks) :
        /\ (tasks[t].kind \in HandlerKinds /\ Finished(t)) =>
                Cardinality(ReplyIdx(t)) = 1
        /\ (tasks[t].kind \in HandlerKinds /\ ReplyIdx(t) # {}) =>
                tasks[t].handleEvent \in {"resolved", "rejected"}
        /\ (tasks[t].kind \in HandlerKinds
                /\ tasks[t].handleEvent \in {"resolved", "rejected"}) =>
                Cardinality(ReplyIdx(t)) = 1
        /\ tasks[t].kind \in UnimplementedKinds \cup {"workerTerminate"} =>
                ReplyIdx(t) = {}

\* C5: a workerStatusRequest is answered in the step that receives it, with no
\* handler run and whatever the other requests are doing, by exactly one
\* envelope whose only field is an empty workerStatusResponse with no result.
C5_StatusAnsweredAtOnce ==
    \A t \in 1..Len(tasks) :
        tasks[t].kind = "workerStatusRequest" =>
            /\ tasks[t].pc = "done"
            /\ tasks[t].handleEvent = "notCalled"
            /\ Cardinality(ReplyIdx(t)) = 1
            /\ \A i \in ReplyIdx(t) :
                    /\ Len(stream[i].msg.content) = 1
                    /\ stream[i].msg.content[1].name = "workerStatusResponse"
                    /\ stream[i].msg.content[1].payload.from = "empty"
                    /\ stream[i].msg.content[1].result = <<>>

\* a status request answered while an earlier request is still suspended
C5_Witness ==
    /\ Len(tasks) = 2
    /\ tasks[2].kind = "workerStatusRequest"
    /\ Suspended(1)
    /\ ReplyIdx(1) = {}
    /\ ReplyIdx(2) # {}

\* what an envelope of an unknown kind leaves behind, and the step that handles it
UnknownHandled(t) ==
    /\ tasks[t].pc = "done"
    /\ ReplyIdx(t) = {}
    /\ Cardinality(LogIdx(t)) = 1
    /\ \A i \in LogIdx(t) :
            stream[i].level = "Error" /\ stream[i].logCategory = "System"

UnknownStep ==
    (Len(tasks') = Len(tasks) + 1 /\ tasks'[Len(tasks')].kind \in UnknownKinds) =>
        /\ \A t \in 1..Len(tasks) : tasks'[t] = tasks[t]
        /\ Len(stream') = Len(stream) + 1
        /\ \A i \in 1..Len(stream) : stream'[i] = stream[i]
        /\ ~terminated'
        /\ UNCHANGED <<console, terminated, hostVersion, packageJsonMain, hooks,
                       appLevelOnlyHookData, appHookData, hasIndexedFunctions,
                       registryVars>>

\* C6: an envelope of an unknown kind leaves an error-level system log and no
\* reply, and the step that handles it changes nothing else: the requests in
\* flight, the lifecycle state and the registry are as they were, and the
\* worker has not terminated.
C6_UnknownKindIgnored ==
    /\ [](\A t \in 1..Len(tasks) : tasks[t].kind \in UnknownKinds => UnknownHandled(t))
    /\ [][UnknownStep]_vars

\* an unknown envelope, then a request that is received and answered
C6_Witness ==
    /\ Len(tasks) = 2
    /\ tasks[1].kind \in UnknownKinds
    /\ tasks[2].kind \in HandlerKinds
    /\ \E i \in ReplyIdx(2) : HasStatus(i, "Success")

\* a step that makes a registry API call
RegistryStep ==
    Len(calls') = Len(calls) + 1 =>
        LET c == calls'[Len(calls')] IN
        IF hasIndexedFunctions
        THEN /\ c.outcome = "InternalException"
             /\ functions' = functions
             /\ heap' = heap
        ELSE /\ c.outcome = "ok"
             /\ c.op = "register" =>
                    /\ c.id \notin {e.id : e \in functions}
                    /\ \E m \in MetadataObjects :
                            functions' = functions \cup {[id |-> c.id, metadata |-> m]}
                    /\ Cardinality(functions') = Cardinality(functions) + 1
             /\ c.op = "dispose" =>
                    functions' = {e \in functions : e.id # c.id}

\* C7: in the indexed state every registerFunction call and every call of a
\* disposal token fails and leaves the registry as it was; before it,
\* registerFunction succeeds and adds one entry under a new id, and disposing
\* removes exactly the entry of its token.
C7_RegistrationWindow == [][RegistryStep]_vars

\* after indexing a registration and a disposal have failed, the entry
\* registered before is still there
C7_Witness ==
    /\ hasIndexedFunctions
    /\ functions # {}
    /\ \E i, j \in 1..Len(calls) :
            /\ calls[i].op = "register" /\ calls[i].outcome = "InternalException"
            /\ calls[j].op = "dispose" /\ calls[j].outcome = "InternalException"

\* C8 as stated: no two registry entries carry the same functionId in their
\* metadata, and the entry stored under key id has metadata.functionId = id,
\* also when one metadata object is registered more than once.
C8_UniqueIds ==
    /\ \A e1, e2 \in functions :
            e1 # e2 => heap[e1.metadata].functionId # heap[e2.metadata].functionId
    /\ \A e \in functions : heap[e.metadata].functionId = e.id

\* ---- the appStart stage
HookLogTexts == {<<"Executing appStart hooks">>, <<"Executed appStart hooks">>}

HookLogs(t) == {i \in LogIdx(t) : stream[i].message \in HookLogTexts}

Handled(kind) ==
    {t \in 1..Len(tasks) : tasks[t].kind = kind /\ tasks[t].handleEvent # "notCalled"}

\* one worker-init, then one reload, and no other of either
Specialization ==
    /\ Cardinality(Handled("workerInitRequest")) = 1
    /\ Cardinality(Handled("functionEnvironmentReloadRequest")) = 1
    /\ \A a \in Handled("workerInitRequest"),
          b \in Handled("functionEnvironmentReloadRequest") : a < b

TheInit == CHOOSE a \in Handled("workerInitRequest") : TRUE

TheReload == CHOOSE b \in Handled("functionEnvironmentReloadRequest") : TRUE

\* the number of runs that have invoked callback h
TimesInvoked(h) == Cardinality({t \in 1..Len(tasks) : Len(tasks[t].seen) >= h})

RepliedSuccess(t) == \E i \in ReplyIdx(t) : HasStatus(i, "Success")

\* the reload is received only after the init was answered with success
InitAnsweredFirst ==
    /\ RepliedSuccess(TheInit)
    /\ \A i \in ReplyIdx(TheInit), j \in LogIdx(TheReload) \cup ReplyIdx(TheReload) : i < j

\* C9 as stated: in the specialization scenario (the init answered with
\* success, then the reload received and answered with success) every appStart
\* hook registered before the reload ran the stage is invoked exactly once in
\* total, by the reload, and the init invokes no hook and emits no
\* hook-execution log.
C9_AsStated ==
    (Specialization /\ InitAnsweredFirst /\ RepliedSuccess(TheReload)) =>
        /\ \A h \in 1..tasks[TheReload].nHooks :
                TimesInvoked(h) = 1 /\ Len(tasks[TheReload].seen) >= h
        /\ tasks[TheInit].seen = <<>>
        /\ HookLogs(TheInit) = {}

\* the callbacks the init found when it ran the stage (none if it never did)
HooksAtInit == IF tasks[TheInit].nHooks < 0 THEN 0 ELSE tasks[TheInit].nHooks

\* C9 amended: in the specialization scenario (the init answered, the reload
\* answered with success) every appStart hook registered after the init ran the
\* stage and before the reload ran it is invoked exactly once in total, by the
\* reload and not by the init; an init that found no hook registered when it
\* ran the stage invokes none and emits no hook-execution log.
C9_HooksRunOnceAtReload ==
    (Specialization /\ Finished(TheInit) /\ RepliedSuccess(TheReload)) =>
        /\ \A h \in (HooksAtInit + 1)..tasks[TheReload].nHooks :
                /\ TimesInvoked(h) = 1
                /\ Len(tasks[TheReload].seen) >= h
                /\ Len(tasks[TheInit].seen) < h
        /\ HooksAtInit = 0 =>
                tasks[TheInit].seen = <<>> /\ HookLogs(TheInit) = {}

\* the test's scenario: an init with no hook, then a hook is registered, then
\* the reload runs it and is answered with success
C9_Witness ==
    /\ Specialization
    /\ tasks[TheInit].pc = "done" /\ tasks[TheInit].nHooks = 0
    /\ InitAnsweredFirst
    /\ RepliedSuccess(TheReload)
    /\ tasks[TheReload].nHooks >= 1

\* C10 as stated: a run of the stage with N >= 1 callbacks logs "Executing N"
\* first, every callback sees the hookData keys written by the earlier
\* callbacks of the same run, and when all callbacks have returned the
\* "Executed" log follows and the reply is written after it.
C10_StageRun ==
    \A t \in 1..Len(tasks) :
        tasks[t].nHooks >= 1 =>
            /\ \E i \in LogIdx(t) :
                    /\ stream[i].message = <<"Executing appStart hooks">>
                    /\ stream[i].n = tasks[t].nHooks
            /\ \A j \in 1..Len(tasks[t].seen) : 1..(j - 1) \subseteq tasks[t].seen[j]
            /\ (Len(tasks[t].seen) = tasks[t].nHooks /\ tasks[t].handleEvent = "resolved") =>
                    \E e \in LogIdx(t) :
                        /\ stream[e].message = <<"Executed appStart hooks">>
                        /\ \A i \in LogIdx(t) :
                                stream[i].message = <<"Executing appStart hooks">> => i < e
                        /\ \A r \in ReplyIdx(t) : e < r

\* C11 as stated: a startApp call that runs the appStart stage with zero
\* registered callbacks emits no hook-execution log and constructs no context
\* object.
C11_NoLogNoContext ==
    \A t \in 1..Len(tasks) :
        tasks[t].nHooks = 0 => HookLogs(t) = {} /\ ~tasks[t].context

\* the run of the stage by request t was ended by a failing callback (a load
\* failure rejects before any callback is invoked)
HookFailed(t) ==
    /\ tasks[t].kind \in StartAppKinds
    /\ tasks[t].handleEvent = "rejected"
    /\ tasks[t].idx >= 1

\* C12: when a callback of a stage run fails, no later callback of that run
\* is invoked, the run's "Executed" log is not emitted, and the worker-init or
\* reload request that started the run is answered by one failure-status
\* reply whose exception.message is the callback's error message.
C12_FailingHookAborts ==
    \A t \in 1..Len(tasks) :
        HookFailed(t) =>
            /\ Len(tasks[t].seen) = tasks[t].idx
            /\ \A i \in LogIdx(t) : stream[i].message # <<"Executed appStart hooks">>
            /\ Cardinality(ReplyIdx(t)) = 1
            /\ \A i \in ReplyIdx(t) :
                    /\ FailureShaped(i, tasks[t].kind)
                    /\ ExceptionMessage(i) = tasks[t].caught[1].message

\* the first of two callbacks failed with "boom": the second was not invoked
\* and the request was answered with that message
C12_Witness ==
    \E t \in 1..Len(tasks) :
        /\ HookFailed(t)
        /\ tasks[t].nHooks = 2 /\ tasks[t].idx = 1
        /\ tasks[t].caught[1].message = <<"boom">>
        /\ \E i \in ReplyIdx(t) : ExceptionMessage(i) = <<"boom">>

Reloads == Handled("functionEnvironmentReloadRequest")

\* C13 as stated: the first appStart callback a reload runs sees an empty
\* hookData (the reload emptied appLevelOnlyHookData when it started), and
\* every key a callback has written to appHookData is still in it.
C13_ReloadSeesEmptyHookData ==
    /\ \A t \in Reloads : Len(tasks[t].seen) >= 1 => tasks[t].seen[1] = {}
    /\ \A t \in 1..Len(tasks) : 1..Len(tasks[t].seen) \subseteq appHookData

\* two reloads in flight: the second one's callback wrote its key between
\* the first one's reset and the first one's first callback
C13_RacingReloads ==
    /\ Reloads = {1, 2}
    /\ Len(tasks[1].seen) >= 1 /\ tasks[1].seen[1] # {}

Inits == Handled("workerInitRequest")

\* the version the first worker-init supplied
FirstVersion == tasks[CHOOSE a \in Inits : \A b \in Inits : a <= b].hostVersion

HostVersionStep == hostVersion # <<>> => hostVersion' = hostVersion

\* C14: until a worker-init has been handled a read of hostVersion fails;
\* once the first worker-init has supplied version v a read returns v, the
\* appStart hooks run by any worker-init read v, and no step changes the
\* value once it is set.
C14_HostVersionWriteOnce ==
    /\ [](/\ Inits = {} => ~ReadHostVersion(hostVersion).ok
          /\ Inits # {} =>
                /\ ReadHostVersion(hostVersion) = [ok |-> TRUE, value |-> FirstVersion]
                /\ \A t \in Inits : \A j \in 1..Len(tasks[t].reads) :
                        tasks[t].reads[j] = [ok |-> TRUE, value |-> FirstVersion])
    /\ [][HostVersionStep]_vars

\* a reload's hook failed to read the version before any worker-init; then a
\* first worker-init supplied 2.7.0 and its hook read it
C14_Witness ==
    /\ Len(tasks) = 2
    /\ tasks[1].kind = "functionEnvironmentReloadRequest"
    /\ Len(tasks[1].reads) >= 1 /\ ~tasks[1].reads[1].ok
    /\ tasks[2].kind = "workerInitRequest"
    /\ Len(tasks[2].reads) >= 1
    /\ tasks[2].reads[1] = [ok |-> TRUE, value |-> "2.7.0"]

\* a second worker-init supplied another version: its hook still read the first
C14_SecondInit ==
    /\ Inits = {1, 2}
    /\ tasks[2].hostVersion # tasks[1].hostVersion
    /\ Len(tasks[2].reads) >= 1
    /\ tasks[2].reads[1].value = tasks[1].hostVersion

\* a step in which request t invokes a callback
CallbackStep(t) ==
    tasks'[t].idx # tasks[t].idx =>
        /\ tasks'[t].assigned =
                <<[hookData |-> [threw |-> TRUE, message |-> ReadOnlyMessage("hookData")],
                   appHookData |-> [threw |-> TRUE,
                                    message |-> ReadOnlyMessage("appHookData")]]>>
        /\ appLevelOnlyHookData' = appLevelOnlyHookData \cup {tasks'[t].idx}
        /\ appHookData' = appHookData \cup {tasks'[t].idx}

\* C15: when an appStart callback assigns to context.hookData or to
\* context.appHookData the assignment fails with the read-only-property error
\* of that property and neither of the worker's maps is replaced; the key the
\* callback writes inside each object is stored in appLevelOnlyHookData and in
\* appHookData, which are otherwise as they were before the callback.
C15_AccessorsReadOnly == [][\A t \in 1..Len(tasks) : CallbackStep(t)]_vars

\* a second callback has run: both assignments failed and the maps hold the
\* keys of both callbacks
C15_Witness ==
    \E t \in 1..Len(tasks) :
        /\ tasks[t].idx = 2
        /\ tasks[t].assigned # <<>>
        /\ tasks[t].assigned[1].hookData.threw /\ tasks[t].assigned[1].appHookData.threw
        /\ appLevelOnlyHookData = {1, 2}
        /\ appHookData = {1, 2}

\* the error request t failed with is an internal or a system error
FailedInternally(t) ==
    /\ tasks[t].caught # <<>>
    /\ \/ tasks[t].caught[1].isAzureFunctionsSystemError
       \/ tasks[t].caught[1].isAzureFunctionsInternalException

\* C16 as stated: a request that failed with an internal or system error
\* (unknown kind, null content field, entry-point load failure marked by
\* startApp) has an error-level system log carrying the error's message, and
\* that log precedes every reply written for the request.
C16_SystemErrorLogged ==
    \A t \in 1..Len(tasks) :
        FailedInternally(t) =>
            \E l \in LogIdx(t) :
                /\ stream[l].level = "Error"
                /\ stream[l].logCategory = "System"
                /\ stream[l].message = tasks[t].caught[1].message
                /\ \A r \in ReplyIdx(t) : l < r

\* a step in which request u completes while an earlier request t is suspended
OvertakingStep(t, u) ==
    (t < u /\ Suspended(t) /\ Suspended(u) /\ tasks'[u].pc = "done") =>
        /\ tasks'[t] = tasks[t]
        /\ \A i \in (Len(stream) + 1)..Len(stream') :
                stream'[i].type = "reply" => stream'[i].task = u
        /\ tasks[u].kind \in HandlerKinds =>
                \E i \in (Len(stream) + 1)..Len(stream') :
                    stream'[i].type = "reply" /\ stream'[i].task = u

\* C17: suspended requests do not block the receipt of the next envelope (it
\* is handled as soon as it arrives, unless the worker has terminated), and a
\* request that completes while an earlier one is suspended is answered in
\* that step, before the earlier one, which stays as it was.
C17_NonBlockingDispatch ==
    /\ []((~terminated /\ Len(tasks) < MaxMsgs) =>
            ENABLED (\E inMsg \in InMsgs : HandleMessage(inMsg)))
    /\ [][\A t, u \in 1..Len(tasks) : OvertakingStep(t, u)]_vars

\* the second request was received while the first was suspended in a hook
\* and has been answered; the first is still suspended and unanswered
C17_Witness ==
    /\ Len(tasks) = 2
    /\ tasks[1].pc = "hook"
    /\ tasks[2].kind \in HandlerKinds /\ tasks[2].pc = "done"
    /\ ReplyIdx(1) = {} /\ ReplyIdx(2) # {}
    /\ \A i \in LogIdx(1), j \in ReplyIdx(2) :
            stream[i].message = <<"Executing appStart hooks">> => i < j

\* the reloads that have reset appLevelOnlyHookData and have not finished
ReloadsInProgress == {t \in Reloads : Suspended(t)}

\* C18 as stated: at most one reload is in progress at any time: a reload
\* received while an earlier one is suspended neither resets
\* appLevelOnlyHookData nor runs appStart hooks before the earlier one has
\* finished.
C18_OneReloadAtATime == Cardinality(ReloadsInProgress) <= 1

\* C19 as stated: no handleMessage call completes by raising, whatever the
\* kind of the envelope and whatever fails in handleEvent, in building the
\* default response or in the validated write of the reply.
C19_NothingEscapes == \A t \in 1..Len(tasks) : tasks[t].pc # "raised"

\* the system errors the validating write logged for request t
ConsoleIdx(t) == {i \in 1..Len(console) : console[i].task = t}

\* handleMessage of request t has reached a write of its envelope
WriteAttempted(t) ==
    /\ Finished(t)
    /\ tasks[t].kind \in HandlerKinds \cup {"workerStatusRequest"}

\* C20: every envelope on the underlying stream passes verification; a write
\* of an envelope that fails verification logs one "Worker malformed message"
\* system error and raises, and nothing is written; a write of an envelope
\* that passes puts it on the stream exactly once.
C20_ValidatedWrite ==
    \A t \in 1..Len(tasks) :
        /\ \A i \in ReplyIdx(t) : Verify(stream[i].msg)
        /\ ConsoleIdx(t) # {} <=> tasks[t].pc = "raised"
        /\ tasks[t].pc = "raised" =>
                /\ WriteAttempted(t)
                /\ ReplyIdx(t) = {}
                /\ Cardinality(ConsoleIdx(t)) = 1
                /\ \A i \in ConsoleIdx(t) : console[i].message = MalformedMessage
        /\ (WriteAttempted(t) /\ tasks[t].pc = "done") => Cardinality(ReplyIdx(t)) = 1
        /\ ~WriteAttempted(t) => ReplyIdx(t) = {}

\* one request's envelope failed verification and was not written, another
\* request's envelope passed and was written
C20_Witness ==
    \E t, u \in 1..Len(tasks) :
        /\ tasks[t].pc = "raised" /\ ConsoleIdx(t) # {} /\ ReplyIdx(t) = {}
        /\ tasks[u].pc = "done" /\ Cardinality(ReplyIdx(u)) = 1

\* the logs of request t with the given text
LogsWith(t, text) == {i \in LogIdx(t) : stream[i].message = text}

\* loadEntryPointFile of request t failed (startApp.ts:66-70 marks the error)
LoadFailed(t) ==
    /\ tasks[t].kind \in StartAppKinds
    /\ tasks[t].caught # <<>>
    /\ tasks[t].caught[1].isAzureFunctionsInternalException

====
